---- MODULE Spec2Model ----
(***************************************************************************)
(* Model of the word-matching engine of lib_units: the rewindable Stream   *)
(* (runes/stream.go), the WordMatcher with AddWord and Match, and the      *)
(* MultiMatcher (runes/matcher.go).                                        *)
(*                                                                         *)
(* Code points are modelled as one-character strings.  A Go string is      *)
(* modelled as the sequence of its bytes, every byte of the texts used     *)
(* here being one ASCII code point, except BAD, a byte that is not valid   *)
(* UTF-8.  Go indices are 0-based: the rune under the cursor is            *)
(* chars[pos + 1] and the word of index idx is words[idx + 1].             *)
(***************************************************************************)
EXTENDS Integers, Sequences, FiniteSets, TLC

VARIABLES
    test_words,   \* the texts the caller passes to AddWord
    test_chars,   \* the rune lists the caller passes to MultiMatcher
    words,        \* WordMatcher.words
    chars,        \* Stream.chars
    pos,          \* Stream.pos
    last_accept,  \* Stream.last_accept
    pc,           \* where the running call is ("idle": no call is running)
    m,            \* the matcher struct of the running Match
    next_count,   \* Match: number of Next calls made
    sol,          \* Match: the word and err returned by get_sol
    refuse_i,     \* Match: the counter i of the Refuse loop
    aw,           \* AddWord: the text given, its runes, the duplicates found
    mm,           \* MultiMatcher: chars, loop index, builder, size, pending error
    start,        \* the cursor at the start of the running call
    ret,          \* what the last completed call returned
    race          \* an AddWord running next to Match: where it is, and what
                  \* Match can still see of the word list it started with

vars == <<test_words, test_chars, words, chars, pos, last_accept, pc, m,
          next_count, sol, refuse_i, aw, mm, start, ret, race>>

----------------------------------------------------------------------------
(* Bounds and input sets *)

MaxStreamLen == 3
MaxCharsLen == 2

Alphabet == {"a", "b"}

CR == "CR"
LF == "LF"
BAD == "BAD"
RuneError == "RuneError"

\* What chars holds when the caller has no Stream: the CharStream it passes is nil.
NilStream == <<"nil">>

SeqsUpTo(S, n) == UNION {[1..len -> S] : len \in 0..n}

Range(s) == {s[j] : j \in 1..Len(s)}

foo == <<"f", "o", "o">>
bar == <<"b", "a", "r">>
baz == <<"b", "a", "z">>
foobar == <<"f", "o", "o", "b", "a", "r">>
fooba == <<"f", "o", "o", "b", "a">>
hello == <<"h", "e", "l", "l", "o">>
hello1 == <<"h", "e", "l", "l", "o", "1">>
abc == <<"a", "b", "c">>
abd == <<"a", "b", "d">>

\* What the caller has at hand in one run: the texts it registers, the rune
\* lists it gives MultiMatcher, and the contents its Stream can be built over.
Universes ==
    { \* words over a small alphabet against every short stream
      [test_words |-> {<<>>, <<"a">>, <<"b">>, <<"a", "a">>, <<"a", "b">>},
       test_chars |-> {},
       streams |-> SeqsUpTo(Alphabet, MaxStreamLen)],
      \* MultiMatcher over every short rune list, next to a small matcher
      [test_words |-> {<<"a">>, <<"a", "b">>},
       test_chars |-> SeqsUpTo(Alphabet, MaxCharsLen),
       streams |-> SeqsUpTo(Alphabet, MaxStreamLen)],
      \* TestMatch and TestMiddleMatch
      [test_words |-> {foo, bar, baz, foobar},
       test_chars |-> {},
       streams |-> {foobar, fooba, <<"b", "a">>}],
      \* TestDuplicates
      [test_words |-> {hello, hello1},
       test_chars |-> {},
       streams |-> {hello1}],
      \* texts with line ends and invalid bytes
      [test_words |-> {<<"a", CR, LF>>, <<"a", LF>>, <<"a", CR>>, <<CR, "a">>,
                       <<BAD>>, <<"a", BAD>>, <<CR, BAD>>},
       test_chars |-> {},
       streams |-> {<<"a", LF, "a">>}],
      \* the MultiMatcher scenarios
      [test_words |-> {},
       test_chars |-> {abc},
       streams |-> {abc, abd, <<"a", "b">>, <<"a", "a", "b", "d">>}],
      \* a caller without a stream
      [test_words |-> {<<"a">>},
       test_chars |-> {<<>>, <<"a">>},
       streams |-> {NilStream}] }

----------------------------------------------------------------------------
(* Errors and return values *)

Err(msg, text, values, at) ==
    [msg |-> msg, text |-> text, values |-> values, at |-> at]

Nil == Err("nil", <<>>, <<>>, 0)

Ret(op, word, err, ok) == [op |-> op, word |-> word, err |-> err, ok |-> ok]

NoRet == Ret("none", <<>>, Nil, TRUE)

NoMatcher == [indices |-> <<>>, pos |-> 0, word |-> <<>>]

NoSol == [word |-> <<>>, err |-> Nil]

NoAddWord == [word |-> <<>>, chars |-> <<>>, indices |-> <<>>]

NoMulti == [chars |-> <<>>, k |-> 0, builder |-> <<>>, size |-> 0, err |-> Nil]

\* No AddWord runs next to Match: at is where that AddWord is, n0 the number
\* of words registered when the running Match started, stale whether the word
\* list was moved to a new array under the running Match, torn whether the
\* running Match has read a word out of an array not yet filled.
NoRace == [at |-> "none", n0 |-> 0, stale |-> FALSE, torn |-> FALSE]

----------------------------------------------------------------------------
(* Stream *)

\* Peek that reads the rune after the one under the cursor.
StreamPeekAhead(cs, p) ==
    IF p + 1 >= Len(cs) THEN [char |-> RuneError, ok |-> FALSE]
    ELSE [char |-> cs[p + 2], ok |-> TRUE]

\* Stream.Peek and the read of Stream.Next: the rune and ok.
StreamPeek(cs, p) ==
    IF p >= Len(cs) THEN [char |-> RuneError, ok |-> FALSE]
    ELSE [char |-> cs[p + 1], ok |-> TRUE]

\* Next that advances the cursor wherever it is.
StreamNextPastEnd(cs, p) == p + 1

\* Next that forgets to advance the cursor.
StreamNextStays(cs, p) == p

\* Stream.Next: the cursor after the call.
StreamNext(cs, p) == IF p >= Len(cs) THEN p ELSE p + 1

\* Next that takes what it read for accepted.
LastAcceptAfterNextMoved(cs, p, la) == IF p >= Len(cs) THEN la ELSE p + 1

\* Stream.Next: the checkpoint after the call; Next writes pos only.
LastAcceptAfterNext(cs, p, la) == la

\* Refuse that forgets to move the cursor back.
StreamRefuseStays(p) == p

\* Stream.Refuse: the cursor after the call.
StreamRefuse(p) == IF p = 0 THEN p ELSE p - 1

\* Refuse that reports success wherever the cursor is.
StreamRefuseOkAlways(p) == TRUE

\* Stream.Refuse: the value returned.
StreamRefuseOk(p) == p # 0

\* RefuseMany that goes back to the start of the stream.
StreamRefuseManyToStart(p, la) == 0

\* Stream.RefuseMany: the cursor after the call.
StreamRefuseMany(p, la) == la

\* Stream.Accept: the checkpoint after the call.
StreamAccept(p, la) == p

\* Stream.IsDone.
StreamIsDone(cs, p) == p >= Len(cs)

StreamFrame == UNCHANGED <<test_words, test_chars, words, chars, m,
                           next_count, sol, refuse_i, aw, mm, start>>

IsDone ==
    /\ pc = "idle"
    /\ chars # NilStream
    /\ ret' = Ret("IsDone", <<>>, Nil, StreamIsDone(chars, pos))
    /\ UNCHANGED <<pos, last_accept, pc>>
    /\ StreamFrame
    /\ UNCHANGED race

Next_ ==
    /\ pc = "idle"
    /\ chars # NilStream
    /\ LET r == StreamPeek(chars, pos) IN
        ret' = Ret("Next", <<r.char>>, Nil, r.ok)
    /\ pos' = StreamNext(chars, pos)
    /\ last_accept' = LastAcceptAfterNext(chars, pos, last_accept)
    /\ UNCHANGED pc
    /\ StreamFrame
    /\ UNCHANGED race

Peek ==
    /\ pc = "idle"
    /\ chars # NilStream
    /\ LET r == StreamPeek(chars, pos) IN
        ret' = Ret("Peek", <<r.char>>, Nil, r.ok)
    /\ UNCHANGED <<pos, last_accept, pc>>
    /\ StreamFrame
    /\ UNCHANGED race

Refuse ==
    /\ pc = "idle"
    /\ chars # NilStream
    /\ ret' = Ret("Refuse", <<>>, Nil, StreamRefuseOk(pos))
    /\ pos' = StreamRefuse(pos)
    /\ UNCHANGED <<last_accept, pc>>
    /\ StreamFrame
    /\ UNCHANGED race

RefuseMany ==
    /\ pc = "idle"
    /\ chars # NilStream
    /\ pos' = StreamRefuseMany(pos, last_accept)
    /\ ret' = Ret("RefuseMany", <<>>, Nil, TRUE)
    /\ UNCHANGED <<last_accept, pc>>
    /\ StreamFrame
    /\ UNCHANGED race

Accept ==
    /\ pc = "idle"
    /\ chars # NilStream
    /\ last_accept' = StreamAccept(pos, last_accept)
    /\ ret' = Ret("Accept", <<>>, Nil, TRUE)
    /\ UNCHANGED <<pos, pc>>
    /\ StreamFrame
    /\ UNCHANGED race

----------------------------------------------------------------------------
(* WordMatcher.AddWord *)

ErrInvalidUTF8Encoding(at) == Err("ErrInvalidUTF8Encoding", <<>>, <<>>, at)

RECURSIVE Decode(_, _, _)
\* The loop of StringToUtf8: str is what is left of the text, decoded the runes
\* found so far, at the byte offset.
Decode(str, decoded, at) ==
    IF Len(str) = 0 THEN [chars |-> decoded, err |-> Nil]
    ELSE LET c == Head(str) IN
        IF c = BAD THEN [chars |-> decoded, err |-> ErrInvalidUTF8Encoding(at)]
        ELSE IF c # CR THEN Decode(Tail(str), Append(decoded, c), at + 1)
        ELSE IF Len(Tail(str)) = 0
            THEN [chars |-> decoded, err |-> ErrInvalidUTF8Encoding(at + 1)]
        ELSE LET c2 == Head(Tail(str)) IN
            IF c2 = BAD
                THEN [chars |-> decoded, err |-> ErrInvalidUTF8Encoding(at + 1)]
            ELSE IF c2 # LF
                THEN [chars |-> decoded, err |-> ErrInvalidUTF8Encoding(at + 2)]
            ELSE Decode(Tail(Tail(str)), Append(decoded, LF), at + 2)

\* StringToUtf8: the runes of a text, '\r\n' read as '\n'.
StringToUtf8(str) ==
    IF Len(str) = 0 THEN [chars |-> <<>>, err |-> Nil] ELSE Decode(str, <<>>, 0)

\* The indices 0 .. n-1 in order.
Iota(n) == [j \in 1..n |-> j - 1]

\* slices.SliceFilter: the elements of S that satisfy the filter, in order;
\* the filter is given as the function from the elements to its verdicts.
SliceFilter(S, filter) ==
    IF Len(S) = 0 THEN <<>> ELSE SelectSeq(S, LAMBDA elem : filter[elem])

\* A first loop that never records an index.
SameLenAndFirstNone(ws, cs) == <<>>

\* AddWord's first loop: the registered words of the same length and the same
\* first rune as cs.
SameLenAndFirst(ws, cs) ==
    LET same(idx) == Len(ws[idx + 1]) = Len(cs) /\ ws[idx + 1][1] = cs[1]
    IN SelectSeq(Iota(Len(ws)), same)

\* A second loop that is never run: same length and first rune is enough.
NarrowDuplicatesSkipped(ws, ind, cs, at) == ind

RECURSIVE NarrowDuplicates(_, _, _, _)
\* AddWord's second loop, from position at on.
NarrowDuplicates(ws, ind, cs, at) ==
    IF at < Len(cs) /\ Len(ind) > 0
    THEN LET filter == [idx \in Range(ind) |-> ws[idx + 1][at + 1] = cs[at + 1]]
         IN NarrowDuplicates(ws, SliceFilter(ind, filter), cs, at + 1)
    ELSE ind

\* An AddWord that puts the new word in front of the others.
AppendIfNewAtFront(ws, cs) ==
    IF Len(NarrowDuplicates(ws, SameLenAndFirst(ws, cs), cs, 1)) = 0
    THEN <<cs>> \o ws
    ELSE ws

\* An AddWord that appends whatever the duplicate test found.
AppendAlways(ws, cs) == Append(ws, cs)

\* The word list AddWord leaves for the decoded runes cs.
AppendIfNew(ws, cs) ==
    IF Len(NarrowDuplicates(ws, SameLenAndFirst(ws, cs), cs, 1)) = 0
    THEN Append(ws, cs)
    ELSE ws

\* A test that takes no text for the empty one.
IsEmptyWordNever(word) == FALSE

\* The test at AddWord's entry: word == "".
IsEmptyWord(word) == Len(word) = 0

\* A decoding whose error is dropped: the runes found before it are kept.
DecodeWordLenient(word) == [chars |-> StringToUtf8(word).chars, err |-> Nil]

\* AddWord's call of StringToUtf8: chars and err.
DecodeWord(word) == StringToUtf8(word)

\* AddWord is called with one of the caller's texts.
AddWordCall ==
    /\ pc = "idle"
    /\ pc' = "AddWord"
    /\ \E word \in test_words :
        aw' = [word |-> word, chars |-> <<>>, indices |-> <<>>]
    /\ ret' = NoRet
    /\ UNCHANGED <<test_words, test_chars, words, chars, pos, last_accept, m,
                   next_count, sol, refuse_i, mm, start>>
    /\ UNCHANGED race

\* The body of AddWord.
AddWord ==
    /\ pc = "AddWord"
    /\ pc' = "AddWordDone"
    /\ IF IsEmptyWord(aw.word)
       THEN /\ ret' = Ret("AddWord", <<>>, Nil, TRUE)
            /\ UNCHANGED <<words, aw>>
       ELSE LET d == DecodeWord(aw.word) IN
           IF d.err # Nil
           THEN /\ ret' = Ret("AddWord", <<>>, d.err, TRUE)
                /\ aw' = [aw EXCEPT !.chars = d.chars]
                /\ UNCHANGED words
           ELSE /\ words' = AppendIfNew(words, d.chars)
                /\ aw' = [aw EXCEPT !.chars = d.chars,
                            !.indices = NarrowDuplicates(
                                words, SameLenAndFirst(words, d.chars), d.chars, 1)]
                /\ ret' = Ret("AddWord", <<>>, Nil, TRUE)
    /\ UNCHANGED <<test_words, test_chars, chars, pos, last_accept, m,
                   next_count, sol, refuse_i, mm, start>>
    /\ UNCHANGED race

\* The caller has the result; the locals of the call are gone.
AddWordReturn ==
    /\ pc = "AddWordDone"
    /\ pc' = "idle"
    /\ aw' = NoAddWord
    /\ UNCHANGED <<test_words, test_chars, words, chars, pos, last_accept, m,
                   next_count, sol, refuse_i, mm, start, ret>>
    /\ UNCHANGED race

----------------------------------------------------------------------------
(* WordMatcher.Match *)

\* WordMatcher.get_word_at: the word of index idx, nil when out of range.
get_word_at(ws, idx) == IF idx < 0 \/ idx >= Len(ws) THEN <<>> ELSE ws[idx + 1]

\* A test that compares the rune read with the first rune of the word.
StaysCandidateFirstRune(word, p, char) == p >= Len(word) \/ word[1] = char

\* A test that drops the words already read to their end.
StaysCandidateStrict(word, p, char) == p < Len(word) /\ word[p + 1] = char

\* The test of matcher.match: word stays a candidate when char is read at p.
StaysCandidate(word, p, char) == p >= Len(word) \/ word[p + 1] = char

\* A narrowing done in place on the word list instead of the index list.
WordsAfterMatchNarrowed(ws, mt, char) ==
    LET keep(word) == StaysCandidate(word, mt.pos, char)
    IN SelectSeq(ws, keep)

\* matcher.match: the word list after the call; match reads the words through
\* get_word_at and writes m.indices only.
WordsAfterMatch(ws, mt, char) == ws

\* A match that has already cut the candidates down when it finds none left.
matchClearsOnStop(ws, mt, char) ==
    LET keep(idx) == StaysCandidate(get_word_at(ws, idx), mt.pos, char)
        kept == SelectSeq(mt.indices, keep)
    IN IF Len(kept) = 0
       THEN [stop |-> TRUE, m |-> [mt EXCEPT !.indices = <<>>]]
       ELSE [stop |-> FALSE,
             m |-> [indices |-> kept, pos |-> mt.pos + 1,
                    word |-> Append(mt.word, char)]]

\* A match that does not record the rune it accepted.
matchWithoutWriteRune(ws, mt, char) ==
    LET keep(idx) == StaysCandidate(get_word_at(ws, idx), mt.pos, char)
        kept == SelectSeq(mt.indices, keep)
    IN IF Len(kept) = 0
       THEN [stop |-> TRUE, m |-> mt]
       ELSE [stop |-> FALSE,
             m |-> [indices |-> kept, pos |-> mt.pos + 1, word |-> mt.word]]

\* matcher.match: stop is the value returned (true: matching cannot continue),
\* m the matcher after the call.
match(ws, mt, char) ==
    LET keep(idx) == StaysCandidate(get_word_at(ws, idx), mt.pos, char)
        kept == SelectSeq(mt.indices, keep)
    IN IF Len(kept) = 0
       THEN [stop |-> TRUE, m |-> mt]
       ELSE [stop |-> FALSE,
             m |-> [indices |-> kept, pos |-> mt.pos + 1,
                    word |-> Append(mt.word, char)]]

\* A test that takes every candidate for a fully matched word.
FullyMatchedAny(word, p) == TRUE

\* The test of get_sol's first loop: the word is no longer than what was read.
FullyMatched(word, p) == Len(word) <= p

\* A comparison turned around: the shortest word wins.
IsLongerReversed(word, max_idx, max_len) ==
    Len(max_idx) = 0 \/ Len(word) < max_len

\* The test of get_sol's second loop: the word replaces the longest so far.
IsLonger(word, max_idx, max_len) == Len(max_idx) = 0 \/ Len(word) > max_len

RECURSIVE LongestOf(_, _, _, _, _)
\* get_sol's second loop from the j-th index on: the indices of the longest words.
LongestOf(ws, ind, j, max_len, max_idx) ==
    IF j > Len(ind) THEN max_idx
    ELSE LET idx == ind[j]
             word == get_word_at(ws, idx)
         IN IF IsLonger(word, max_idx, max_len)
            THEN LongestOf(ws, ind, j + 1, Len(word), <<idx>>)
            ELSE IF Len(word) = max_len
            THEN LongestOf(ws, ind, j + 1, max_len, Append(max_idx, idx))
            ELSE LongestOf(ws, ind, j + 1, max_len, max_idx)

\* matcher.get_sol: the word and the error.
get_sol(ws, mt) ==
    LET full(idx) == FullyMatched(get_word_at(ws, idx), mt.pos)
        ind == SelectSeq(mt.indices, full)
    IN IF Len(ind) = 0
       THEN IF Len(mt.word) = 0
            THEN [word |-> <<>>, err |-> Err("no matches found", <<>>, <<>>, 0)]
            ELSE [word |-> <<>>,
                  err |-> Err("no matches found for", mt.word, <<>>, 0)]
       ELSE LET max_idx == LongestOf(ws, ind, 1, 0, <<>>)
            IN IF Len(max_idx) > 1
               THEN [word |-> <<>>,
                     err |-> Err("multiple matches found for", mt.word,
                                 [j \in 1..Len(max_idx) |->
                                     get_word_at(ws, max_idx[j])], 0)]
               ELSE [word |-> get_word_at(ws, max_idx[1]), err |-> Nil]

\* A size that is one too large.
RuneCountInStringPlusOne(word) == Len(word) + 1

\* A size that is one too small.
RuneCountInStringMinusOne(word) == Len(word) - 1

\* utf8.RuneCountInString of a word made of valid runes.
RuneCountInString(word) == Len(word)

\* A matcher whose candidates miss the first registered word.
NewMatcherFromSecond(ws) ==
    [indices |-> [j \in 1..(Len(ws) - 1) |-> j], pos |-> 0, word |-> <<>>]

\* The matcher Match builds: every index of the word list, pos 0, no rune read.
NewMatcher(ws) == [indices |-> Iota(Len(ws)), pos |-> 0, word |-> <<>>]

\* gcers.NewErrNilParameter.
ErrNilParameter(parameter) == Err("ErrInvalidParameter", <<parameter>>, <<"nil">>, 0)

\* The check of Match's parameter, the stream with content cs: the error
\* returned at once, nil when the call goes on.
MatchParams(cs) == IF cs = NilStream THEN ErrNilParameter("is") ELSE Nil

\* Match up to the loop: the candidates are all the registered words.
MatchCall ==
    /\ pc = "idle"
    /\ IF MatchParams(chars) # Nil
       THEN /\ ret' = Ret("Match", <<>>, MatchParams(chars), TRUE)
            /\ UNCHANGED <<pc, m, next_count, sol, refuse_i, start>>
       ELSE /\ pc' = "Match"
            /\ m' = NewMatcher(words)
            /\ next_count' = 0
            /\ sol' = NoSol
            /\ refuse_i' = 0
            /\ start' = pos
            /\ ret' = NoRet
    /\ UNCHANGED <<test_words, test_chars, words, chars, pos, last_accept, aw, mm>>
    /\ UNCHANGED race

\* One iteration of Match's loop.
MatchLoop ==
    /\ pc = "Match"
    /\ LET peek == StreamPeek(chars, pos) IN
        IF ~peek.ok
        THEN /\ sol' = get_sol(words, m)
             /\ refuse_i' = RuneCountInString(sol'.word)
             /\ pc' = "MatchRefuse"
             /\ UNCHANGED <<m, pos, next_count, words, last_accept>>
        ELSE LET r == match(words, m, peek.char)
                 ws == WordsAfterMatch(words, m, peek.char)
             IN
            IF r.stop
            THEN /\ sol' = get_sol(ws, r.m)
                 /\ refuse_i' = RuneCountInString(sol'.word)
                 /\ pc' = "MatchRefuse"
                 /\ m' = r.m
                 /\ words' = ws
                 /\ UNCHANGED <<pos, next_count, last_accept>>
            ELSE /\ m' = r.m
                 /\ words' = ws
                 /\ pos' = StreamNext(chars, pos)
                 /\ last_accept' = LastAcceptAfterNext(chars, pos, last_accept)
                 /\ next_count' = next_count + 1
                 /\ UNCHANGED <<sol, refuse_i, pc>>
    /\ UNCHANGED <<test_words, test_chars, chars, aw, mm, start, ret>>
    /\ UNCHANGED race

\* One iteration of the Refuse loop, or the return that follows it.
MatchRefuse ==
    /\ pc = "MatchRefuse"
    /\ IF refuse_i < next_count
       THEN /\ pos' = StreamRefuse(pos)
            /\ refuse_i' = refuse_i + 1
            /\ UNCHANGED <<pc, ret>>
       ELSE /\ pc' = "MatchDone"
            /\ ret' = IF sol.err # Nil
                      THEN Ret("Match", <<>>, sol.err, TRUE)
                      ELSE Ret("Match", sol.word, Nil, TRUE)
            /\ UNCHANGED <<pos, refuse_i>>
    /\ UNCHANGED <<test_words, test_chars, words, chars, last_accept, m,
                   next_count, sol, aw, mm, start>>
    /\ UNCHANGED race

\* The caller has the result; the locals of the call are gone.
MatchReturn ==
    /\ pc = "MatchDone"
    /\ pc' = "idle"
    /\ m' = NoMatcher
    /\ next_count' = 0
    /\ sol' = NoSol
    /\ refuse_i' = 0
    /\ start' = 0
    /\ UNCHANGED <<test_words, test_chars, words, chars, pos, last_accept,
                   aw, mm, ret>>
    /\ UNCHANGED race

----------------------------------------------------------------------------
(* MultiMatcher *)

ErrInvalidParameter == Err("ErrInvalidParameter", <<>>, <<>>, 0)

\* A check that lets an empty rune list through.
MultiMatcherParamsNilOnly(cs, expected) ==
    IF cs = NilStream THEN ErrNilParameter("stream") ELSE Nil

\* The check of MultiMatcher's parameters, the stream with content cs and the
\* runes expected: the error returned at once, nil when the call goes on.
MultiMatcherParams(cs, expected) ==
    IF cs = NilStream THEN ErrNilParameter("stream")
    ELSE IF Len(expected) = 0 THEN ErrInvalidParameter
    ELSE Nil

\* MultiMatcher up to the loop.
MultiMatcherCall ==
    /\ pc = "idle"
    /\ \E cs \in test_chars :
        IF MultiMatcherParams(chars, cs) # Nil
        THEN /\ ret' = Ret("MultiMatcher", <<>>, MultiMatcherParams(chars, cs), TRUE)
             /\ UNCHANGED <<pc, mm, start>>
        ELSE /\ pc' = "MultiMatcher"
             /\ mm' = [chars |-> cs, k |-> 0, builder |-> <<>>, size |-> 0,
                       err |-> Nil]
             /\ start' = pos
             /\ ret' = NoRet
    /\ UNCHANGED <<test_words, test_chars, words, chars, pos, last_accept, m,
                   next_count, sol, refuse_i, aw>>
    /\ UNCHANGED race

\* One iteration of the loop over chars, or the return after the last one.
MultiMatcherLoop ==
    /\ pc = "MultiMatcher"
    /\ IF mm.k >= Len(mm.chars)
       THEN /\ pc' = "MultiMatcherDone"
            /\ ret' = Ret("MultiMatcher", mm.builder, Nil, TRUE)
            /\ UNCHANGED <<mm, pos, last_accept>>
       ELSE LET c == mm.chars[mm.k + 1]
                peek == StreamPeek(chars, pos)
            IN IF ~peek.ok
               THEN /\ mm' = [mm EXCEPT !.err =
                                Err("expected, got nothing instead", <<c>>, <<>>, 0)]
                    /\ pc' = "MultiMatcherRefuse"
                    /\ UNCHANGED <<pos, ret, last_accept>>
               ELSE IF peek.char # c
               THEN /\ mm' = [mm EXCEPT !.builder = Append(@, peek.char),
                                !.err = Err("expected, got instead",
                                            <<c, peek.char>>, <<>>, 0)]
                    /\ pc' = "MultiMatcherRefuse"
                    /\ UNCHANGED <<pos, ret, last_accept>>
               ELSE /\ mm' = [mm EXCEPT !.builder = Append(@, peek.char),
                                !.size = @ + 1, !.k = @ + 1]
                    /\ pos' = StreamNext(chars, pos)
                    /\ last_accept' = LastAcceptAfterNext(chars, pos, last_accept)
                    /\ UNCHANGED <<pc, ret>>
    /\ UNCHANGED <<test_words, test_chars, words, chars, m,
                   next_count, sol, refuse_i, aw, start>>
    /\ UNCHANGED race

\* One iteration of a loop "for size > 0 { stream.Refuse() }", or the return
\* that follows it.
MultiMatcherRefuse ==
    /\ pc = "MultiMatcherRefuse"
    /\ IF mm.size > 0
       THEN /\ pos' = StreamRefuse(pos)
            /\ UNCHANGED <<pc, ret>>
       ELSE /\ pc' = "MultiMatcherDone"
            /\ ret' = Ret("MultiMatcher", <<>>, mm.err, TRUE)
            /\ UNCHANGED pos
    /\ UNCHANGED <<test_words, test_chars, words, chars, last_accept, m,
                   next_count, sol, refuse_i, aw, mm, start>>
    /\ UNCHANGED race

\* The caller has the result; the locals of the call are gone.
MultiMatcherReturn ==
    /\ pc = "MultiMatcherDone"
    /\ pc' = "idle"
    /\ mm' = NoMulti
    /\ start' = 0
    /\ UNCHANGED <<test_words, test_chars, words, chars, pos, last_accept, m,
                   next_count, sol, refuse_i, aw, ret>>
    /\ UNCHANGED race

----------------------------------------------------------------------------
(* Initial state: NewWordMatcher and NewStream *)

Init ==
    /\ \E u \in Universes :
        /\ test_words = u.test_words
        /\ test_chars = u.test_chars
        /\ chars \in u.streams
    /\ words = <<>>
    /\ pos = 0
    /\ last_accept = 0
    /\ pc = "idle"
    /\ m = NoMatcher
    /\ next_count = 0
    /\ sol = NoSol
    /\ refuse_i = 0
    /\ aw = NoAddWord
    /\ mm = NoMulti
    /\ start = 0
    /\ ret = NoRet
    /\ race = NoRace

Next ==
    \/ IsDone
    \/ Next_
    \/ Peek
    \/ Refuse
    \/ RefuseMany
    \/ Accept
    \/ AddWordCall
    \/ AddWord
    \/ AddWordReturn
    \/ MatchCall
    \/ MatchLoop
    \/ MatchRefuse
    \/ MatchReturn
    \/ MultiMatcherCall
    \/ MultiMatcherLoop
    \/ MultiMatcherRefuse
    \/ MultiMatcherReturn

Spec == Init /\ [][Next]_vars

\* A call that has started keeps running: Match is one synchronous function,
\* so its loop and its Refuse loop are taken whenever they can be.
FairSpec == Spec /\ WF_vars(MatchLoop) /\ WF_vars(MatchRefuse)

\* The same for MultiMatcher: its loop over chars and its Refuse loops are
\* taken whenever they can be.
FairMultiMatcherSpec ==
    Spec /\ WF_vars(MultiMatcherLoop) /\ WF_vars(MultiMatcherRefuse)

----------------------------------------------------------------------------
(* AddWord running next to Match on the same WordMatcher, without locking *)

\* What the caller has at hand when it runs AddWord next to Match.
RaceUniverses ==
    { [test_words |-> {<<>>, <<"a">>, <<"b">>, <<"a", "b">>},
       test_chars |-> {},
       streams |-> SeqsUpTo(Alphabet, MaxStreamLen)] }

\* append(wm.words, chars) on a list of n words moves the words to a new
\* array when the list is full: a list grown one word at a time has room for
\* 1, 2, 4 words in turn.
MovedByAppend(n) == n \in {1, 2, 4}

\* What an unsynchronised read of the word list can give Match: the words
\* themselves, or, once the list was moved under it, the empty word for any
\* word whose slot in the new array it sees before the copy.
RaceViews ==
    IF race.stale
    THEN {seen \in [1..Len(words) -> Range(words) \cup {<<>>}] :
            \A j \in 1..Len(words) : seen[j] \in {words[j], <<>>}}
    ELSE {words}

\* Some candidate was read as another word than the one registered.
Misread(seen, ind) == \E idx \in Range(ind) : seen[idx + 1] # words[idx + 1]

\* Match up to the loop, next to no AddWord yet.
RaceMatchCall ==
    /\ pc = "idle"
    /\ race.at = "none"
    /\ IF MatchParams(chars) # Nil
       THEN /\ ret' = Ret("Match", <<>>, MatchParams(chars), TRUE)
            /\ UNCHANGED <<pc, m, next_count, sol, refuse_i, start, race>>
       ELSE /\ pc' = "Match"
            /\ m' = NewMatcher(words)
            /\ next_count' = 0
            /\ sol' = NoSol
            /\ refuse_i' = 0
            /\ start' = pos
            /\ ret' = NoRet
            /\ race' = [NoRace EXCEPT !.n0 = Len(words)]
    /\ UNCHANGED <<test_words, test_chars, words, chars, pos, last_accept, aw, mm>>

\* One iteration of Match's loop, every word read through get_word_at being
\* what the unsynchronised read gives: seen by match, seen_sol by get_sol.
RaceMatchLoop ==
    /\ pc = "Match"
    /\ LET peek == StreamPeek(chars, pos) IN
        IF ~peek.ok
        THEN \E seen_sol \in RaceViews :
             /\ sol' = get_sol(seen_sol, m)
             /\ refuse_i' = RuneCountInString(sol'.word)
             /\ pc' = "MatchRefuse"
             /\ race' = [race EXCEPT !.torn = @ \/ Misread(seen_sol, m.indices)]
             /\ UNCHANGED <<m, pos, next_count, last_accept>>
        ELSE \E seen \in RaceViews :
            LET r == match(seen, m, peek.char) IN
            IF r.stop
            THEN \E seen_sol \in RaceViews :
                 /\ sol' = get_sol(seen_sol, r.m)
                 /\ refuse_i' = RuneCountInString(sol'.word)
                 /\ pc' = "MatchRefuse"
                 /\ m' = r.m
                 /\ race' = [race EXCEPT !.torn = @ \/ Misread(seen, m.indices)
                                            \/ Misread(seen_sol, m.indices)]
                 /\ UNCHANGED <<pos, next_count, last_accept>>
            ELSE /\ m' = r.m
                 /\ pos' = StreamNext(chars, pos)
                 /\ last_accept' = LastAcceptAfterNext(chars, pos, last_accept)
                 /\ next_count' = next_count + 1
                 /\ race' = [race EXCEPT !.torn = @ \/ Misread(seen, m.indices)]
                 /\ UNCHANGED <<sol, refuse_i, pc>>
    /\ UNCHANGED <<test_words, test_chars, words, chars, aw, mm, start, ret>>

\* matcher.match reads a candidate whose slot in the new array holds the
\* length but not yet the pointer to its runes: word[m.pos] is then a nil
\* dereference, and Match panics.
RaceMatchFault ==
    /\ pc = "Match"
    /\ race.stale
    /\ StreamPeek(chars, pos).ok
    /\ \E idx \in Range(m.indices) : m.pos < Len(words[idx + 1])
    /\ pc' = "MatchDone"
    /\ ret' = Ret("Match", <<>>, Err("panic", <<>>, <<>>, 0), FALSE)
    /\ race' = [race EXCEPT !.torn = TRUE]
    /\ UNCHANGED <<test_words, test_chars, words, chars, pos, last_accept, m,
                   next_count, sol, refuse_i, aw, mm, start>>

\* The caller has the result; the AddWord that ran next to the call is over.
RaceMatchReturn ==
    /\ pc = "MatchDone"
    /\ race.at = "none"
    /\ pc' = "idle"
    /\ m' = NoMatcher
    /\ next_count' = 0
    /\ sol' = NoSol
    /\ refuse_i' = 0
    /\ start' = 0
    /\ race' = NoRace
    /\ UNCHANGED <<test_words, test_chars, words, chars, pos, last_accept,
                   aw, mm, ret>>

ConcFrame == UNCHANGED <<test_words, test_chars, chars, pos, last_accept, pc, m,
                         next_count, sol, refuse_i, mm, start, ret>>

\* Another goroutine calls AddWord while Match runs.
ConcAddWordCall ==
    /\ pc \in {"Match", "MatchRefuse"}
    /\ race.at = "none"
    /\ \E word \in test_words :
        aw' = [word |-> word, chars |-> <<>>, indices |-> <<>>]
    /\ race' = [race EXCEPT !.at = "decode"]
    /\ UNCHANGED words
    /\ ConcFrame

\* AddWord: the test for the empty text and the call of StringToUtf8.
ConcAddWordDecode ==
    /\ race.at = "decode"
    /\ IF IsEmptyWord(aw.word)
       THEN /\ race' = [race EXCEPT !.at = "return"]
            /\ UNCHANGED aw
       ELSE LET d == DecodeWord(aw.word) IN
           /\ aw' = [aw EXCEPT !.chars = d.chars]
           /\ race' = [race EXCEPT !.at = IF d.err # Nil THEN "return" ELSE "scan"]
    /\ UNCHANGED words
    /\ ConcFrame

\* AddWord: the first loop.
ConcAddWordScan ==
    /\ race.at = "scan"
    /\ aw' = [aw EXCEPT !.indices = SameLenAndFirst(words, aw.chars)]
    /\ race' = [race EXCEPT !.at = "narrow"]
    /\ UNCHANGED words
    /\ ConcFrame

\* AddWord: the second loop.
ConcAddWordNarrow ==
    /\ race.at = "narrow"
    /\ aw' = [aw EXCEPT !.indices = NarrowDuplicates(words, aw.indices, aw.chars, 1)]
    /\ race' = [race EXCEPT !.at = "append"]
    /\ UNCHANGED words
    /\ ConcFrame

\* AddWord: the append when no duplicate is left.  No other goroutine writes
\* the list, so the duplicates found are those AppendIfNew finds.
ConcAddWordAppend ==
    /\ race.at = "append"
    /\ words' = AppendIfNew(words, aw.chars)
    /\ race' = [race EXCEPT !.at = "return",
                   !.stale = @ \/ (Len(aw.indices) = 0 /\ MovedByAppend(Len(words)))]
    /\ UNCHANGED aw
    /\ ConcFrame

\* AddWord returns to the goroutine that called it.
ConcAddWordReturn ==
    /\ race.at = "return"
    /\ aw' = NoAddWord
    /\ race' = [race EXCEPT !.at = "none"]
    /\ UNCHANGED words
    /\ ConcFrame

RaceInit ==
    /\ \E u \in RaceUniverses :
        /\ test_words = u.test_words
        /\ test_chars = u.test_chars
        /\ chars \in u.streams
    /\ words = <<>>
    /\ pos = 0
    /\ last_accept = 0
    /\ pc = "idle"
    /\ m = NoMatcher
    /\ next_count = 0
    /\ sol = NoSol
    /\ refuse_i = 0
    /\ aw = NoAddWord
    /\ mm = NoMulti
    /\ start = 0
    /\ ret = NoRet
    /\ race = NoRace

RaceNext ==
    \/ Next_
    \/ AddWordCall
    \/ AddWord
    \/ AddWordReturn
    \/ RaceMatchCall
    \/ RaceMatchLoop
    \/ RaceMatchFault
    \/ MatchRefuse
    \/ RaceMatchReturn
    \/ ConcAddWordCall
    \/ ConcAddWordDecode
    \/ ConcAddWordScan
    \/ ConcAddWordNarrow
    \/ ConcAddWordAppend
    \/ ConcAddWordReturn

\* The caller registers words and moves the cursor between calls; while a
\* Match runs, another goroutine runs AddWord calls statement by statement.
RaceSpec == RaceInit /\ [][RaceNext]_vars

----------------------------------------------------------------------------
(* What the claims speak of *)

\* The stream content from the cursor the running call started at.
Remaining == SubSeq(chars, start + 1, Len(chars))

IsPrefix(w, s) == Len(w) <= Len(s) /\ \A j \in 1..Len(w) : w[j] = s[j]

\* The registered words that are a prefix of the remaining content.
PrefixWords == {w \in Range(words) : IsPrefix(w, Remaining)}

IsLongestPrefixWord(w) ==
    w \in PrefixWords /\ \A v \in PrefixWords : Len(v) <= Len(w)

\* Two distinct registered words of one length, both still consistent with
\* everything the stream has left, which ends before either is complete.
TiedAtEndOfStream ==
    \E w1, w2 \in Range(words) :
        /\ w1 # w2
        /\ Len(w1) = Len(w2)
        /\ Len(Remaining) < Len(w1)
        /\ IsPrefix(Remaining, w1)
        /\ IsPrefix(Remaining, w2)

\* A registered word that is fully matched and is the start of a longer
\* registered word that the remaining content does not complete.
LongerCandidateCutShort ==
    \E w \in PrefixWords : \E c \in Range(words) :
        Len(w) < Len(c) /\ IsPrefix(w, c) /\ ~IsPrefix(c, Remaining)

\* Every expected rune of the running MultiMatcher equals the stream's rune.
AllExpectedMatch ==
    /\ start + Len(mm.chars) <= Len(chars)
    /\ \A j \in 1..Len(mm.chars) : mm.chars[j] = chars[start + j]

----------------------------------------------------------------------------
(* Claims *)

\* C1: when Match returns, it returns (w, nil) exactly when w is the longest
\* registered word that is a prefix of the stream content from the cursor at
\* call start, and an error exactly when no registered word is such a prefix.
C1_LongestPrefixWins ==
    pc = "MatchDone" =>
        /\ ret.op = "Match"
        /\ IF PrefixWords = {}
           THEN ret.err # Nil /\ ret.word = <<>>
           ELSE ret.err = Nil /\ IsLongestPrefixWord(ret.word)

\* C1 witness: foo and foobar are registered, the content is foobar, and Match
\* returned foobar.
C1_Witness ==
    /\ pc = "MatchDone"
    /\ {foo, foobar} \subseteq Range(words)
    /\ Remaining = foobar
    /\ ret.word = foobar
    /\ ret.err = Nil

\* C2: after a successful Match the cursor is its value at call start plus the
\* length of the returned word, however many runes were consumed with Next.
C2_CursorAfterMatch ==
    pc = "MatchDone" /\ ret.err = Nil =>
        /\ pos = start + Len(ret.word)
        /\ Len(ret.word) <= next_count

\* C2 witness: a successful Match that started past position 0 and consumed
\* more runes than the word it returned.
C2_Witness ==
    /\ pc = "MatchDone"
    /\ ret.err = Nil
    /\ start > 0
    /\ next_count > Len(ret.word)
    /\ pos = start + Len(ret.word)

\* C3: whenever Match returns an error the cursor is back at the position it
\* had when Match was called.
C3_CursorAfterFailedMatch ==
    pc = "MatchDone" /\ ret.err # Nil => pos = start

\* C3 witness: a failed Match that started past position 0 and had consumed
\* two runes or more.
C3_Witness ==
    /\ pc = "MatchDone"
    /\ ret.err # Nil
    /\ start > 0
    /\ next_count >= 2
    /\ pos = start

\* C4: on a mismatch or an early end of the stream MultiMatcher refuses the
\* runes it consumed, no more, and returns a mismatch error with the cursor at
\* its position before the call.
C4_MismatchRestoresCursor ==
    /\ pc = "MultiMatcherRefuse" => pos >= start
    /\ pc = "MultiMatcherDone" /\ ret.err # Nil => pos = start

\* C5: AddWord with a word that is already registered returns a non-nil error.
C5_DuplicateIsAnError ==
    [][pc = "AddWord" /\ StringToUtf8(aw.word).err = Nil
        /\ StringToUtf8(aw.word).chars \in Range(words)
            => ret'.err # Nil]_vars

C7_TieIsAmbiguous ==
    pc = "MatchDone" /\ TiedAtEndOfStream =>
        /\ ret.err.msg = "multiple matches found for"
        /\ Len(ret.err.values) >= 2

\* C7 amended: in that case Match returns no ambiguous-match error; it returns
\* the longest registered word that is fully matched, and when there is none
\* the no-match error naming the runes consumed (all that the stream had left).
C7_TieIsNoMatch ==
    pc = "MatchDone" /\ TiedAtEndOfStream =>
        IF PrefixWords = {}
        THEN ret.err = (IF Len(Remaining) = 0
                        THEN Err("no matches found", <<>>, <<>>, 0)
                        ELSE Err("no matches found for", Remaining, <<>>, 0))
        ELSE ret.err = Nil /\ IsLongestPrefixWord(ret.word)

\* C7 witness: bar and baz are registered, the stream holds "ba", and Match
\* returned the no-match error for "ba".
C7_Witness ==
    /\ pc = "MatchDone"
    /\ {bar, baz} \subseteq Range(words)
    /\ Remaining = <<"b", "a">>
    /\ ret.err = Err("no matches found for", <<"b", "a">>, <<>>, 0)

\* C8: when the stream ends or diverges in the middle of a longer candidate,
\* Match returns the longest registered word that was fully matched and leaves
\* the cursor right after it; with foo, bar, baz and foobar registered and the
\* stream "fooba" it returns foo with the cursor at 3.
C8_MiddleMatch ==
    /\ pc = "MatchDone" /\ LongerCandidateCutShort =>
        /\ ret.err = Nil
        /\ IsLongestPrefixWord(ret.word)
        /\ pos = start + Len(ret.word)
    /\ pc = "MatchDone" /\ Range(words) = {foo, bar, baz, foobar}
        /\ chars = fooba /\ start = 0 =>
            ret.word = foo /\ ret.err = Nil /\ pos = 3

\* C8 witness: the four words in the order of the test, the stream "fooba",
\* all of it consumed, and foo returned.
C8_Witness ==
    /\ pc = "MatchDone"
    /\ words = <<foo, bar, baz, foobar>>
    /\ chars = fooba
    /\ start = 0
    /\ next_count = 5
    /\ ret.word = foo

\* C9: when every expected rune equals the stream's rune at its place,
\* MultiMatcher returns the expected runes as a string with a nil error and
\* the cursor has advanced by len(chars).
C9_MultiMatcherSuccess ==
    /\ pc = "MultiMatcherDone" /\ AllExpectedMatch =>
        /\ ret.word = mm.chars
        /\ ret.err = Nil
        /\ pos = start + Len(mm.chars)
    /\ pc \in {"MultiMatcher", "MultiMatcherRefuse"} /\ AllExpectedMatch =>
        /\ pc = "MultiMatcher"
        /\ pos = start + mm.k
        /\ mm.builder = SubSeq(mm.chars, 1, mm.k)

\* C9 witness: MultiMatcher(['a','b','c']) on the stream "abc" has returned.
C9_Witness ==
    /\ pc = "MultiMatcherDone"
    /\ mm.chars = abc
    /\ chars = abc
    /\ ret.word = abc
    /\ pos = 3

\* C10: 0 <= last_accept <= pos <= length at all times.
C10_CheckpointInvariant ==
    /\ 0 <= last_accept
    /\ last_accept <= pos
    /\ pos <= Len(chars)

\* C11: every Match on a finite Stream terminates: an iteration of its loop
\* either leaves the loop or advances the cursor by one, so the loop is left
\* after at most (remaining length + 1) Peek calls, one per iteration.
C11_MatchTerminates ==
    /\ [](pc \in {"Match", "MatchRefuse", "MatchDone"} =>
            /\ next_count <= Len(Remaining)
            /\ refuse_i <= IF next_count > Len(sol.word)
                           THEN next_count ELSE Len(sol.word))
    /\ [][pc = "Match" =>
            \/ pc' = "MatchRefuse" /\ pos' = pos
            \/ pc' = "Match" /\ pos' = pos + 1 /\ next_count' = next_count + 1]_vars
    /\ (pc = "Match") ~> (pc = "MatchDone")

\* C11 witness: a Match that took the greatest number of iterations: it
\* consumed all three runes of the stream and left the loop at its end.
C11_Witness ==
    /\ pc = "MatchDone"
    /\ start = 0
    /\ Len(chars) = 3
    /\ next_count = 3

\* A step in which the caller calls the Stream method op, which returns at once.
StreamCall(op) == pc = "idle" /\ pc' = "idle" /\ ret'.op = op /\ ret' # NoRet

C13_RefuseManyToCheckpoint ==
    /\ [][/\ StreamCall("RefuseMany") =>
               pos' = last_accept /\ last_accept' = last_accept
          /\ StreamCall("Accept") => last_accept' = pos /\ pos' = pos
          /\ last_accept' # last_accept => StreamCall("Accept")]_vars
    /\ [](ret.op = "RefuseMany" =>
            /\ pos = last_accept
            /\ StreamRefuseMany(pos, last_accept) = pos)
    /\ last_accept = 0

\* C13 witness: RefuseMany has just brought the cursor back to a checkpoint
\* that an Accept had set at 2.
C13_Witness ==
    /\ ret.op = "RefuseMany"
    /\ last_accept = 2
    /\ pos = 2
    /\ Len(chars) = 3

\* C14: Peek and IsDone change neither the cursor nor the checkpoint; Next at
\* the end of the stream returns ok = false and leaves the cursor where it is;
\* the cursor never exceeds the length.
C14_PeekIsDoneNextAtEnd ==
    /\ [][/\ StreamCall("Peek") \/ StreamCall("IsDone") =>
               pos' = pos /\ last_accept' = last_accept
          /\ StreamCall("IsDone") => (ret'.ok <=> pos >= Len(chars))
          /\ StreamCall("Peek") => (ret'.ok <=> pos < Len(chars))
          /\ StreamCall("Next") /\ pos >= Len(chars) =>
               ~ret'.ok /\ pos' = pos /\ ret'.word = <<RuneError>>]_vars
    /\ [](pos <= Len(chars))

\* C14 witness: Next has just returned ok = false at the end of a stream of
\* three runes.
C14_Witness ==
    /\ ret.op = "Next"
    /\ ~ret.ok
    /\ Len(chars) = 3
    /\ pos = 3

\* C15: Match with a nil stream, and MultiMatcher with a nil stream or an empty
\* rune list, return an invalid-parameter error and the empty string at once:
\* no such call gets to its loop, and the stream is not touched.
C15_InvalidParameters ==
    /\ [](pc \in {"Match", "MatchRefuse", "MatchDone"} => chars # NilStream)
    /\ [](pc \in {"MultiMatcher", "MultiMatcherRefuse", "MultiMatcherDone"} =>
            chars # NilStream /\ Len(mm.chars) > 0)
    /\ [](chars = NilStream =>
            /\ pos = 0 /\ last_accept = 0
            /\ ret.op = "Match" =>
                ret = Ret("Match", <<>>, ErrNilParameter("is"), TRUE)
            /\ ret.op = "MultiMatcher" =>
                ret = Ret("MultiMatcher", <<>>, ErrNilParameter("stream"), TRUE))
    /\ [][StreamCall("Match") \/ StreamCall("MultiMatcher") =>
            /\ ret'.err.msg = "ErrInvalidParameter"
            /\ ret'.word = <<>>
            /\ chars = NilStream \/ ret'.err = ErrInvalidParameter
            /\ pos' = pos /\ last_accept' = last_accept]_vars

\* C15 witness: the caller has no stream and MultiMatcher has returned the
\* error for its nil parameter.
C15_Witness ==
    /\ chars = NilStream
    /\ pc = "idle"
    /\ ret = Ret("MultiMatcher", <<>>, ErrNilParameter("stream"), TRUE)

\* A text StringToUtf8 cannot decode: it holds a byte that is no valid UTF-8,
\* or a '\r' that no '\n' follows.
Undecodable(text) ==
    \E j \in 1..Len(text) :
        \/ text[j] = BAD
        \/ text[j] = CR /\ (j = Len(text) \/ text[j + 1] # LF)

\* C16: AddWord("") returns nil and leaves the registered words as they were,
\* and with them all that a later Match reads.
C16_EmptyWordIsNoOp ==
    [][pc = "AddWord" /\ aw.word = <<>> =>
        /\ ret'.err = Nil
        /\ words' = words
        /\ <<chars, pos, last_accept>>' = <<chars, pos, last_accept>>]_vars

\* C16 witness: AddWord("") has run on a matcher that holds two words and
\* returned nil.
C16_Witness ==
    /\ pc = "AddWordDone"
    /\ aw.word = <<>>
    /\ Len(words) = 2
    /\ ret = Ret("AddWord", <<>>, Nil, TRUE)

\* C17: when the text given to AddWord cannot be decoded, AddWord returns the
\* decoding error and the registered words are unchanged: the runes decoded
\* before the error are not added.
C17_DecodingErrorAddsNothing ==
    [][pc = "AddWord" /\ Undecodable(aw.word) =>
        /\ ret'.err.msg = "ErrInvalidUTF8Encoding"
        /\ ret'.err = StringToUtf8(aw.word).err
        /\ words' = words]_vars

\* C17 witness: AddWord has run on the text "a" followed by an invalid byte,
\* decoded the rune 'a', and returned the error at offset 1.
C17_Witness ==
    /\ pc = "AddWordDone"
    /\ aw.word = <<"a", BAD>>
    /\ aw.chars = <<"a">>
    /\ ret.err = ErrInvalidUTF8Encoding(1)
    /\ <<"a">> \notin Range(words)

Min(a, b) == IF a < b THEN a ELSE b

MatchRunning == pc \in {"Match", "MatchRefuse", "MatchDone"}

\* The runes the running Match has consumed with Next.
Consumed == SubSeq(chars, start + 1, start + next_count)

RECURSIVE RunMatch(_, _, _, _)
\* Match's loop run from the j-th rune of rem on: what get_sol returns.
RunMatch(ws, rem, mt, j) ==
    IF j > Len(rem) THEN get_sol(ws, mt)
    ELSE LET r == match(ws, mt, rem[j])
         IN IF r.stop THEN get_sol(ws, r.m) ELSE RunMatch(ws, rem, r.m, j + 1)

\* What one Match returns on the words ws and the content rem when it starts
\* with all of ws as candidates and nothing read.
MatchAlone(ws, rem) ==
    LET all == [indices |-> [j \in 1..Len(ws) |-> j - 1], pos |-> 0, word |-> <<>>]
        r == RunMatch(ws, rem, all, 1)
    IN IF r.err # Nil THEN Ret("Match", <<>>, r.err, TRUE)
       ELSE Ret("Match", r.word, Nil, TRUE)

\* C18: Match never changes the registered word list: over every step of a
\* Match call, on success and on failure, words keeps its length, order and
\* contents.
C18_MatchLeavesWords ==
    [][MatchRunning \/ MatchRunning' \/ StreamCall("Match") => words' = words]_vars

\* C18 witness: three words are registered and Match has returned the second
\* of them, the list being as it was.
C18_Witness ==
    /\ pc = "MatchDone"
    /\ words = << <<"a">>, <<"a", "b">>, <<"b">> >>
    /\ ret.word = <<"a", "b">>
    /\ ret.err = Nil

\* C19: matcher state does not persist across Match calls: every call starts
\* with all registered words as candidates, pos 0 and nothing read, and what it
\* returns is what a Match alone returns on the registered words and the
\* stream content from the cursor on, whatever calls came before.
C19_MatchStartsAfresh ==
    [][/\ pc = "idle" /\ pc' = "Match" =>
            /\ m'.indices = [j \in 1..Len(words) |-> j - 1]
            /\ m'.pos = 0
            /\ m'.word = <<>>
            /\ next_count' = 0
       /\ pc = "MatchRefuse" /\ pc' = "MatchDone" =>
            ret' = MatchAlone(words, Remaining)]_vars

\* C19 witness: a Match called at cursor 1 of the stream "bab" has returned
\* "ab", the longest registered word the content from there on starts with.
C19_Witness ==
    /\ pc = "MatchDone"
    /\ start = 1
    /\ chars = <<"b", "a", "b">>
    /\ words = << <<"a">>, <<"a", "b">> >>
    /\ ret = Ret("Match", <<"a", "b">>, Nil, TRUE)

\* C20 as stated: at every step of a Match call every candidate index refers to
\* a registered word whose prefix of length pos is the runes consumed so far.
C20_CandidatesHavePrefixOfLengthPos ==
    MatchRunning =>
        \A idx \in Range(m.indices) :
            /\ 0 <= idx /\ idx < Len(words)
            /\ Len(words[idx + 1]) >= m.pos
            /\ SubSeq(words[idx + 1], 1, m.pos) = Consumed

\* C20 amended: every candidate index refers to a registered word that agrees
\* with the runes consumed so far on its first min(pos, len(word)) runes; a
\* word shorter than pos, once read to its end, stays a candidate whatever
\* runes follow it.  pos is the number of runes consumed.
C20_CandidatesAgreeWithConsumed ==
    MatchRunning =>
        /\ m.pos = next_count
        /\ m.word = Consumed
        /\ \A idx \in Range(m.indices) :
            /\ 0 <= idx /\ idx < Len(words)
            /\ \A j \in 1..Min(m.pos, Len(words[idx + 1])) :
                words[idx + 1][j] = Consumed[j]

\* C20 witness: "a" is still a candidate after "ab" was consumed, next to "ab".
C20_Witness ==
    /\ pc = "Match"
    /\ words = << <<"a">>, <<"a", "b">>, <<"b">> >>
    /\ Consumed = <<"a", "b">>
    /\ m.indices = <<0, 1>>
    /\ m.pos = 2

\* The candidates of the running Match that stay when char is read.
KeptCandidates(char) ==
    {idx \in Range(m.indices) :
        m.pos >= Len(words[idx + 1]) \/ words[idx + 1][m.pos + 1] = char}

\* s is t with some elements left out, t having no element twice.
IsSubSeqOf(s, t) ==
    LET in_s(e) == e \in Range(s) IN s = SelectSeq(t, in_s)

\* C21: during one Match call the candidate set only shrinks: after each
\* narrowing step it is a subset of the set before it (a subsequence of the
\* index list, made of the candidates the rune read keeps), and when a
\* narrowing step would leave no candidate the set is left as it was before
\* that step and the peeked rune is not consumed.
C21_CandidatesOnlyShrink ==
    [][MatchRunning /\ MatchRunning' =>
        /\ IsSubSeqOf(m'.indices, m.indices)
        /\ pc = "Match" /\ pos < Len(chars) =>
            IF KeptCandidates(chars[pos + 1]) = {}
            THEN /\ m'.indices = m.indices
                 /\ pos' = pos
                 /\ next_count' = next_count
                 /\ pc' = "MatchRefuse"
            ELSE /\ Range(m'.indices) = KeptCandidates(chars[pos + 1])
                 /\ pos' = pos + 1
                 /\ pc' = "Match"]_vars

\* C21 witness: "ab" and "b" are registered and the stream is "aa": the first
\* narrowing left "ab" alone, the second would have left nothing, so "ab" is
\* still the candidate and the second "a" is still under the cursor.
C21_Witness ==
    /\ pc = "MatchRefuse"
    /\ words = << <<"a", "b">>, <<"b">> >>
    /\ chars = <<"a", "a">>
    /\ m.indices = <<0>>
    /\ m.pos = 1
    /\ pos = 1
    /\ refuse_i = 0

\* C22: AddWord's narrowing-based duplicate test is exact equality: a call
\* with a non-empty text that decodes appends the decoded runes when no
\* identical rune sequence is registered and leaves the list alone when one
\* is; no other step changes the list; so the registered words are non-empty,
\* pairwise distinct and in the order of their first occurrence.
C22_DuplicateTestIsEquality ==
    /\ [](\A j, k \in 1..Len(words) :
            Len(words[j]) > 0 /\ (words[j] = words[k] => j = k))
    /\ [][IF pc = "AddWord" /\ Len(aw.word) > 0 /\ StringToUtf8(aw.word).err = Nil
          THEN LET cs == StringToUtf8(aw.word).chars IN
              IF \E j \in 1..Len(words) : words[j] = cs
              THEN words' = words
              ELSE words' = Append(words, cs)
          ELSE words' = words]_vars

\* C22 witness: "aa" and "ab" are registered, and AddWord("ab") has found the
\* one duplicate, index 1, among the two words of its length and first rune.
C22_Witness ==
    /\ pc = "AddWordDone"
    /\ aw.word = <<"a", "b">>
    /\ words = << <<"a", "a">>, <<"a", "b">> >>
    /\ aw.indices = <<1>>

\* No candidate of the running Match is a word read to its end.
NoFullyMatchedCandidate ==
    \A idx \in Range(m.indices) : Len(words[idx + 1]) > next_count

\* C23: when resolution finds no fully matched candidate, the error is the
\* generic "no matches found" if no rune was consumed in this Match call, and
\* "no matches found for <text>" otherwise, the text being exactly the runes
\* consumed with Next during this call.
C23_NoMatchErrorText ==
    pc \in {"MatchRefuse", "MatchDone"} /\ NoFullyMatchedCandidate =>
        /\ sol.word = <<>>
        /\ sol.err = IF next_count = 0
                     THEN Err("no matches found", <<>>, <<>>, 0)
                     ELSE Err("no matches found for", Consumed, <<>>, 0)
        /\ pc = "MatchDone" => ret = Ret("Match", <<>>, sol.err, TRUE)

\* C23 witness: "ab" and "b" are registered and the stream is "aa": Match
\* consumed the first "a" and returned "no matches found for" with the text "a".
C23_Witness ==
    /\ pc = "MatchDone"
    /\ words = << <<"a", "b">>, <<"b">> >>
    /\ chars = <<"a", "a">>
    /\ start = 0
    /\ next_count = 1
    /\ ret.err = Err("no matches found for", <<"a">>, <<>>, 0)

\* C24: every call to MultiMatcher on a finite Stream terminates, also when a
\* mismatch or the end of the stream occurs after at least one expected rune
\* was consumed.
C24_MultiMatcherTerminates ==
    (pc \in {"MultiMatcher", "MultiMatcherRefuse"}) ~> (pc = "MultiMatcherDone")

\* The candidates of the running Match that are words read to their end and
\* no shorter than any other such candidate.
LongestFullyMatched ==
    LET full == {idx \in Range(m.indices) : Len(words[idx + 1]) <= m.pos}
    IN {idx \in full : \A other \in full :
            Len(words[other + 1]) <= Len(words[idx + 1])}

\* C25: for a matcher populated only through AddWord, Match never returns the
\* "multiple matches found" error: at resolution at most one fully matched
\* candidate of maximal length exists, for every stream content.
C25_NeverMultipleMatches ==
    /\ pc \in {"MatchRefuse", "MatchDone"} =>
        /\ Cardinality(LongestFullyMatched) <= 1
        /\ sol.err.msg # "multiple matches found for"
        /\ sol.err.values = <<>>
    /\ ret.op = "Match" => ret.err.msg # "multiple matches found for"

\* C25 witness: "a" and "ab" are both read to their end on the stream "ab"
\* and, next to the candidate "aa", Match has returned the longer one.
C25_Witness ==
    /\ pc = "MatchDone"
    /\ words = << <<"a">>, <<"a", "a">>, <<"a", "b">> >>
    /\ chars = <<"a", "b">>
    /\ m.indices = <<0, 2>>
    /\ LongestFullyMatched = {2}
    /\ ret = Ret("Match", <<"a", "b">>, Nil, TRUE)

\* C26: Match returns a word only after Peek has reported the end of the
\* stream: a word read to its end stays a candidate for every later rune, so
\* Match consumes to the end of the stream before it resolves to a word, and
\* the branch taken when narrowing leaves no candidate always ends in a
\* no-match error, never in a word.
C26_WordOnlyAtEndOfStream ==
    /\ [](pc \in {"MatchRefuse", "MatchDone"} /\ sol.err = Nil =>
            /\ start + next_count = Len(chars)
            /\ ~StreamPeek(chars, start + next_count).ok)
    /\ [](pc = "MatchDone" /\ start + next_count < Len(chars) =>
            /\ ret.word = <<>>
            /\ ret.err.msg \in {"no matches found", "no matches found for"})
    /\ [][pc = "Match" /\ pc' = "Match" =>
            \A idx \in Range(m.indices) :
                Len(words[idx + 1]) <= m.pos => idx \in Range(m'.indices)]_vars
    /\ [][pc = "Match" /\ pc' = "MatchRefuse" /\ pos < Len(chars) =>
            /\ sol'.word = <<>>
            /\ sol'.err.msg \in {"no matches found", "no matches found for"}]_vars

\* C26 witness: "a" is registered and the stream is "ab": "a" stayed a
\* candidate when "b" was read, Match consumed both runes, met the end of the
\* stream, returned "a" and gave the "b" back.
C26_Witness ==
    /\ pc = "MatchDone"
    /\ words = << <<"a">> >>
    /\ chars = <<"a", "b">>
    /\ start = 0
    /\ next_count = 2
    /\ m.indices = <<0>>
    /\ pos = 1
    /\ ret = Ret("Match", <<"a">>, Nil, TRUE)

\* C27: every Refuse call that Match issues on a Stream returns true: each
\* time Match refuses, the cursor is greater than 0 and greater than the
\* position it had at call start, so Match never moves the cursor to a
\* position before that one.
C27_MatchRefuseSucceeds ==
    /\ [](MatchRunning => start <= pos)
    /\ [][pc = "MatchRefuse" /\ refuse_i < next_count =>
            /\ StreamRefuseOk(pos)
            /\ pos > 0
            /\ pos > start
            /\ pos' = pos - 1]_vars
    /\ [][pc = "MatchRefuse" /\ pc' = "MatchDone" =>
            pos = start + Len(sol.word)]_vars

\* C27 witness: a Match called at cursor 3 of "fooba" consumed "ba", found
\* neither "bar" nor "baz" complete and has refused both runes: the cursor is
\* back at 3.
C27_Witness ==
    /\ pc = "MatchDone"
    /\ chars = fooba
    /\ start = 3
    /\ next_count = 2
    /\ refuse_i = 2
    /\ pos = 3
    /\ ret.err = Err("no matches found for", <<"b", "a">>, <<>>, 0)

MultiMatcherRunning == pc \in {"MultiMatcher", "MultiMatcherRefuse", "MultiMatcherDone"}

\* C28: Match and MultiMatcher never call Accept or RefuseMany: over every
\* step of such a call the checkpoint last_accept stays what it was, so the
\* checkpoint is the same after the call as before it, and a RefuseMany the
\* caller issues after a successful Match takes the cursor back to the
\* caller's last checkpoint.
C28_CallsLeaveCheckpoint ==
    /\ [][\/ MatchRunning \/ MatchRunning'
          \/ MultiMatcherRunning \/ MultiMatcherRunning'
          \/ StreamCall("Match") \/ StreamCall("MultiMatcher")
          => /\ last_accept' = last_accept
             /\ ret'.op \notin {"Accept", "RefuseMany"}]_vars
    /\ [][/\ pc = "idle" /\ ret.op = "Match" /\ ret.err = Nil
          /\ StreamCall("RefuseMany")
          => pos' = last_accept /\ last_accept' = last_accept]_vars

\* C28 witness: the caller accepted at cursor 1 of "bab" and then called
\* Match, which consumed to the end and returned "ab": the cursor is at 3 and
\* the checkpoint still at 1.
C28_Witness ==
    /\ pc = "MatchDone"
    /\ chars = <<"b", "a", "b">>
    /\ start = 1
    /\ last_accept = 1
    /\ pos = 3
    /\ ret = Ret("Match", <<"a", "b">>, Nil, TRUE)

\* The first rune expected by the running MultiMatcher is not the rune at the
\* cursor the call started at: the stream ends there, or holds another rune.
FirstExpectedFails ==
    /\ MultiMatcherRunning
    /\ start >= Len(chars) \/ chars[start + 1] # mm.chars[1]

\* C29: when MultiMatcher fails on the very first expected rune (the stream
\* is already at its end, or its first rune differs), it returns an error at
\* once without calling Next or Refuse, and the cursor is unchanged.
C29_FirstRuneFailure ==
    /\ [](FirstExpectedFails =>
            /\ pos = start
            /\ mm.size = 0
            /\ mm.k = 0
            /\ pc = "MultiMatcherDone" =>
                /\ ret.word = <<>>
                /\ ret.err = IF start >= Len(chars)
                             THEN Err("expected, got nothing instead",
                                      <<mm.chars[1]>>, <<>>, 0)
                             ELSE Err("expected, got instead",
                                      <<mm.chars[1], chars[start + 1]>>, <<>>, 0))
    /\ [][FirstExpectedFails =>
            /\ pos' = pos
            /\ pc = "MultiMatcher" => pc' = "MultiMatcherRefuse"
            /\ pc = "MultiMatcherRefuse" => pc' = "MultiMatcherDone"]_vars

\* C29 witness: MultiMatcher("abc") called at cursor 2 of "aabd" met "b"
\* where it expected "a", and returned the error with the cursor still at 2.
C29_Witness ==
    /\ pc = "MultiMatcherDone"
    /\ chars = <<"a", "a", "b", "d">>
    /\ mm.chars = abc
    /\ start = 2
    /\ pos = 2
    /\ ret.err = Err("expected, got instead", <<"a", "b">>, <<>>, 0)

\* The words that were registered when the running Match started.
WordsAtStart == SubSeq(words, 1, race.n0)

====
